---- MODULE Spec2Model ----
(***************************************************************************)
(* ARQ simulations: Selective Repeat (selective_repeat.py), Go-Back-N      *)
(* (go_back_n.py) and Stop-and-Wait (stop_and_wait.py).                    *)
(*                                                                         *)
(* Payloads are identified by their position in the list given to          *)
(* add_data (1, 2, ...), so the instance with unbounded number n carries   *)
(* payload n + 1 and the wire sequence number n % max_seq_num.             *)
(*                                                                         *)
(* Time: the code reads time.time() only to stamp a (re)transmission and   *)
(* to compare current_time - timestamp with the timeout.  A stamp is kept  *)
(* as a logical time, later than every stamp still stored.  The timeout is *)
(* a constructor argument and a time.sleep lasts as long as the scheduler  *)
(* lets it, so at a timeout check any number of the oldest stamps may have *)
(* run out: the older a stamp, the sooner it runs out.                     *)
(***************************************************************************)
EXTENDS Integers, Sequences, FiniteSets, TLC

\* ------------------------------------------------------------------ bounds
MaxPayloads == 9          \* longest list handed to add_data
MaxWindow == 5            \* largest window_size given to the constructors
MaxRetransmissions == 2   \* retransmissions followed while statistics are counted
MaxFaults == 2            \* transmissions that fail in a run
MaxPasses == 7            \* passes of the Go-Back-N main loop that are followed
MaxCalls == 4             \* send_frame calls of a Stop-and-Wait run

\* ------------------------------------------------------- program constants
max_seq_num == 8
max_iterations == 500
max_retransmissions == 10
max_attempts == 5

Outcomes == {"lost", "corrupted", "ack_lost", "ok"}

VARIABLES
  sr_sender,              \* SelectiveRepeatSender fields
  sr_receiver,            \* SelectiveRepeatReceiver fields
  sr_pc,                  \* position inside SelectiveRepeatSender.send_frames
  frames_to_retransmit,   \* local list of check_individual_timeouts
  sr_last,                \* the last receiver.receive_frame call of the sender
  sr_channel,             \* what the random module will answer in this run
  sr_counting             \* TRUE: statistics counters are followed

VARIABLES
  gbn_sender,             \* GoBackNSender fields
  gbn_receiver,           \* GoBackNReceiver fields
  gbn_pc,                 \* position inside GoBackNSender.send_frames
  iteration_count,        \* local counter of GoBackNSender.send_frames
  gbn_batch,              \* local frames_to_retransmit of go_back_n_retransmit
  gbn_last,               \* the last receiver.receive_frame call of the sender
  gbn_retransmitted,      \* instances handed to the receiver a second time
  gbn_channel,            \* what the random module will answer in this run
  gbn_returned            \* <<value>> once GoBackNSender.send_frames has returned value

sr_vars == <<sr_sender, sr_receiver, sr_pc, frames_to_retransmit, sr_last,
             sr_channel, sr_counting>>

gbn_vars == <<gbn_sender, gbn_receiver, gbn_pc, iteration_count, gbn_batch,
              gbn_last, gbn_retransmitted, gbn_channel, gbn_returned>>

VARIABLES
  saw_sender,             \* StopAndWaitSender fields
  saw_receiver,           \* StopAndWaitReceiver fields
  saw_pc,                 \* "idle": between send_frame calls; "loop": inside one
  saw_data,               \* payloads the caller has still to pass to send_frame
  saw_results,            \* what the send_frame calls returned, in call order
  saw_last,               \* the last receiver.receive_frame call of this send_frame
  saw_channel             \* what the random module will answer in this run

saw_vars == <<saw_sender, saw_receiver, saw_pc, saw_data, saw_results, saw_last,
              saw_channel>>

vars == <<sr_vars, gbn_vars, saw_vars>>

\* ------------------------------------------------------- the random module
\* What random.random() answers during a run:
\*   "random": anything, at every call;
\*   "forced": the lost_tx-th transmitted frame is lost, nothing else fails;
\*   "fair":   anything, but at most faults_left more transmissions fail;
\*   "dead":   every transmitted frame is lost.
RandomChannel == [kind |-> "random", lost_tx |-> 0, faults_left |-> 0]

ForcedLoss(k) == [kind |-> "forced", lost_tx |-> k, faults_left |-> 0]

FairChannel(f) == [kind |-> "fair", lost_tx |-> 0, faults_left |-> f]

DeadChannel == [kind |-> "dead", lost_tx |-> 0, faults_left |-> 0]

Draws(channel, tx) ==
  CASE channel.kind = "random" -> Outcomes
    [] channel.kind = "forced" -> IF tx = channel.lost_tx THEN {"lost"} ELSE {"ok"}
    [] channel.kind = "fair" -> IF channel.faults_left > 0 THEN Outcomes ELSE {"ok"}
    [] channel.kind = "dead" -> {"lost"}

Drawn(channel, outcome) ==
  IF channel.kind = "fair" /\ outcome # "ok"
    THEN [channel EXCEPT !.faults_left = @ - 1]
    ELSE channel

\* ----------------------------------------------------------------- helpers
Min(a, b) == IF a <= b THEN a ELSE b

Max(S) == CHOOSE x \in S : \A y \in S : y <= x

RECURSIVE SortedSeq(_)
SortedSeq(S) ==
  IF S = {} THEN <<>>
  ELSE LET m == CHOOSE x \in S : \A y \in S : x <= y
       IN <<m>> \o SortedSeq(S \ {m})

Restrict(f, S) == [x \in S |-> f[x]]

\* ------------------------------------------------------------------- Frame
Frame(seq_num, data) == [seq_num |-> seq_num, frame_type |-> "DATA", data |-> data]

\* ------------------------------------------------ SelectiveRepeatReceiver
SRReceiverInit(window_size) ==
  [window_size |-> window_size, base |-> 0, buffer |-> <<>>,
   received_frames |-> <<>>, total_frames_received |-> 0,
   frames_discarded |-> 0, duplicate_frames |-> 0]

\* mutant: the window end is taken one past the last slot
is_in_window_wide(r, seq_num) ==
  LET window_end == (r.base + r.window_size) % max_seq_num
      lo == r.base % max_seq_num
  IN IF lo <= window_end
       THEN lo <= seq_num /\ seq_num <= window_end
       ELSE seq_num >= lo \/ seq_num <= window_end

is_in_window(r, seq_num) ==
  LET window_end == (r.base + r.window_size - 1) % max_seq_num
      lo == r.base % max_seq_num
  IN IF lo <= window_end
       THEN lo <= seq_num /\ seq_num <= window_end
       ELSE seq_num >= lo \/ seq_num <= window_end

is_already_delivered(r, seq_num) == seq_num < r.base % max_seq_num

\* mutant: the delivered frame leaves the buffer but base is not advanced
deliver_frames_no_slide(r) ==
  LET seq_num == r.base % max_seq_num
  IN IF seq_num \in DOMAIN r.buffer
       THEN [r EXCEPT !.received_frames = Append(@, r.buffer[seq_num]),
                      !.buffer = Restrict(@, DOMAIN @ \ {seq_num})]
       ELSE r

\* mutant: delivered frames are not deleted from the buffer
RECURSIVE deliver_frames_keep(_)
deliver_frames_keep(r) ==
  LET seq_num == r.base % max_seq_num
  IN IF seq_num \in DOMAIN r.buffer
       THEN LET rest == deliver_frames_keep([r EXCEPT
                          !.received_frames = Append(@, r.buffer[seq_num]),
                          !.buffer = Restrict(@, DOMAIN @ \ {seq_num}),
                          !.base = @ + 1])
            IN [rest EXCEPT !.buffer =
                  [k \in DOMAIN @ \cup {seq_num} |->
                     IF k = seq_num THEN r.buffer[seq_num] ELSE @[k]]]
       ELSE r

\* mutant: "if" for "while", one frame is delivered per call
deliver_frames_once(r) ==
  LET seq_num == r.base % max_seq_num
  IN IF seq_num \in DOMAIN r.buffer
       THEN [r EXCEPT !.received_frames = Append(@, r.buffer[seq_num]),
                      !.buffer = Restrict(@, DOMAIN @ \ {seq_num}),
                      !.base = @ + 1]
       ELSE r

RECURSIVE deliver_frames(_)
deliver_frames(r) ==
  LET seq_num == r.base % max_seq_num
  IN IF seq_num \in DOMAIN r.buffer
       THEN deliver_frames([r EXCEPT
              !.received_frames = Append(@, r.buffer[seq_num]),
              !.buffer = Restrict(@, DOMAIN @ \ {seq_num}),
              !.base = @ + 1])
       ELSE r

\* deliver_frames returns delivered_acks, which the loop never extends
delivered_acks == <<>>

\* send_ack: TRUE iff the ACK is not lost
send_ack(outcome) == outcome # "ack_lost"

\* mutant: deliver_frames reports the numbers of the frames it delivered
receive_frame_acks_delivered(r, frame, outcome) ==
  LET r1 == [r EXCEPT !.total_frames_received = @ + 1]
  IN IF outcome = "lost" THEN [receiver |-> r1, ack_nums |-> <<>>]
     ELSE IF outcome = "corrupted"
       THEN [receiver |-> [r1 EXCEPT !.frames_discarded = @ + 1], ack_nums |-> <<>>]
     ELSE IF is_in_window(r1, frame.seq_num)
       THEN LET r2 == IF frame.seq_num \in DOMAIN r1.buffer
                        THEN [r1 EXCEPT !.duplicate_frames = @ + 1]
                        ELSE [r1 EXCEPT !.buffer =
                                [k \in DOMAIN @ \cup {frame.seq_num} |->
                                   IF k = frame.seq_num THEN frame.data ELSE @[k]]]
                acks == IF send_ack(outcome) THEN <<frame.seq_num>> ELSE <<>>
                r3 == deliver_frames(r2)
            IN [receiver |-> r3,
                ack_nums |-> acks \o [i \in 1..(r3.base - r2.base) |->
                                        (r2.base + i - 1) % max_seq_num]]
     ELSE IF is_already_delivered(r1, frame.seq_num)
       THEN [receiver |-> r1,
             ack_nums |-> IF send_ack(outcome) THEN <<frame.seq_num>> ELSE <<>>]
     ELSE [receiver |-> [r1 EXCEPT !.frames_discarded = @ + 1], ack_nums |-> <<>>]

\* mutant: a corrupted frame inside the window is processed all the same
receive_frame_no_abort(r, frame, outcome) ==
  LET r1 == [r EXCEPT !.total_frames_received = @ + 1]
  IN IF outcome = "lost" THEN [receiver |-> r1, ack_nums |-> <<>>]
     ELSE IF outcome = "corrupted" /\ ~is_in_window(r1, frame.seq_num)
       THEN [receiver |-> [r1 EXCEPT !.frames_discarded = @ + 1], ack_nums |-> <<>>]
     ELSE IF is_in_window(r1, frame.seq_num)
       THEN LET r2 == IF frame.seq_num \in DOMAIN r1.buffer
                        THEN [r1 EXCEPT !.duplicate_frames = @ + 1]
                        ELSE [r1 EXCEPT !.buffer =
                                [k \in DOMAIN @ \cup {frame.seq_num} |->
                                   IF k = frame.seq_num THEN frame.data ELSE @[k]]]
                acks == IF send_ack(outcome) THEN <<frame.seq_num>> ELSE <<>>
            IN [receiver |-> deliver_frames(r2), ack_nums |-> acks \o delivered_acks]
     ELSE IF is_already_delivered(r1, frame.seq_num)
       THEN [receiver |-> r1,
             ack_nums |-> IF send_ack(outcome) THEN <<frame.seq_num>> ELSE <<>>]
     ELSE [receiver |-> [r1 EXCEPT !.frames_discarded = @ + 1], ack_nums |-> <<>>]

\* receive_frame: the new receiver and the returned list (None and [] are
\* both the empty list: the callers only test "if ack_nums")
receive_frame(r, frame, outcome) ==
  LET r1 == [r EXCEPT !.total_frames_received = @ + 1]
  IN IF outcome = "lost" THEN [receiver |-> r1, ack_nums |-> <<>>]
     ELSE IF outcome = "corrupted"
       THEN [receiver |-> [r1 EXCEPT !.frames_discarded = @ + 1], ack_nums |-> <<>>]
     ELSE IF is_in_window(r1, frame.seq_num)
       THEN LET r2 == IF frame.seq_num \in DOMAIN r1.buffer
                        THEN [r1 EXCEPT !.duplicate_frames = @ + 1]
                        ELSE [r1 EXCEPT !.buffer =
                                [k \in DOMAIN @ \cup {frame.seq_num} |->
                                   IF k = frame.seq_num THEN frame.data ELSE @[k]]]
                acks == IF send_ack(outcome) THEN <<frame.seq_num>> ELSE <<>>
            IN [receiver |-> deliver_frames(r2), ack_nums |-> acks \o delivered_acks]
     ELSE IF is_already_delivered(r1, frame.seq_num)
       THEN [receiver |-> r1,
             ack_nums |-> IF send_ack(outcome) THEN <<frame.seq_num>> ELSE <<>>]
     ELSE [receiver |-> [r1 EXCEPT !.frames_discarded = @ + 1], ack_nums |-> <<>>]

\* -------------------------------------------------- SelectiveRepeatSender
SRSenderInit(window_size, n) ==
  [window_size |-> window_size, base |-> 0, next_seq_num |-> 0,
   window |-> <<>>, ack_received |-> {}, data_buffer |-> [i \in 1..n |-> i],
   total_transmissions |-> 0, retransmissions |-> 0, individual_timers |-> <<>>]

\* mutant: the window test admits one frame too many
can_send_off_by_one(s) ==
  s.next_seq_num <= s.base + s.window_size /\ Len(s.data_buffer) > 0

can_send(s) ==
  s.next_seq_num < s.base + s.window_size /\ Len(s.data_buffer) > 0

\* mutant: the ACK is taken as cumulative, retiring every older instance too
process_ack_cumulative(s, ack_num) ==
  LET hit == {n \in DOMAIN s.window : n % max_seq_num = ack_num}
      seq_nums_to_remove == {n \in DOMAIN s.window : \E h \in hit : n <= h}
  IN [s EXCEPT
       !.ack_received = @ \cup {ack_num},
       !.window = Restrict(@, DOMAIN @ \ seq_nums_to_remove),
       !.individual_timers = Restrict(@, DOMAIN @ \ seq_nums_to_remove)]

\* mutant: the acknowledged frame is not removed from the window and timers
process_ack_no_cleanup(s, ack_num) ==
  [s EXCEPT !.ack_received = @ \cup {ack_num}]

\* mutant: the timer of the acknowledged frame is left running
process_ack_keeps_timer(s, ack_num) ==
  LET seq_nums_to_remove == {n \in DOMAIN s.window : n % max_seq_num = ack_num}
  IN [s EXCEPT
       !.ack_received = @ \cup {ack_num},
       !.window = Restrict(@, DOMAIN @ \ seq_nums_to_remove)]

process_ack(s, ack_num) ==
  LET seq_nums_to_remove == {n \in DOMAIN s.window : n % max_seq_num = ack_num}
  IN [s EXCEPT
       !.ack_received = @ \cup {ack_num},
       !.window = Restrict(@, DOMAIN @ \ seq_nums_to_remove),
       !.individual_timers = Restrict(@, DOMAIN @ \ seq_nums_to_remove)]

RECURSIVE process_acks(_, _)
process_acks(s, ack_nums) ==
  IF ack_nums = <<>> THEN s
  ELSE process_acks(process_ack(s, Head(ack_nums)), Tail(ack_nums))

slide_window_count_acks(s) ==
  [s EXCEPT !.ack_received = {}, !.base = @ + Cardinality(s.ack_received)]

RECURSIVE slide_window(_)
slide_window(s) ==
  IF s.base % max_seq_num \in s.ack_received
    THEN slide_window([s EXCEPT !.ack_received = @ \ {s.base % max_seq_num},
                                !.base = @ + 1])
    ELSE s

NoCall == [inst |-> -1, frame |-> Frame(0, 0), outcome |-> "none",
           ack_nums |-> <<>>, retransmit |-> FALSE, delivered_before |-> FALSE]


\* time.time(): a stamp later than every stamp the sender still holds
time_time(s) ==
  1 + Max({0} \cup {s.individual_timers[n] : n \in DOMAIN s.individual_timers})

\* the stamps renumbered 1, 2, ... in their order
Rank(s, t) == Cardinality({m \in DOMAIN s.individual_timers : s.individual_timers[m] <= t})

\* statistics are followed only while sr_counting; without them only the
\* order of the stamps is kept
SenderStats(s) ==
  IF sr_counting THEN s
  ELSE [s EXCEPT
          !.total_transmissions = 0, !.retransmissions = 0,
          !.window = [n \in DOMAIN @ |-> [@[n] EXCEPT !.timestamp = Rank(s, @)]],
          !.individual_timers = [n \in DOMAIN @ |-> Rank(s, @[n])]]

ReceiverStats(r) ==
  IF sr_counting THEN r
  ELSE [r EXCEPT !.total_frames_received = 0, !.frames_discarded = 0,
                 !.duplicate_frames = 0]

\* send_frames, inner loop body: admit one new frame
send_new_frame(s, r, outcome) ==
  LET data == Head(s.data_buffer)
      frame == Frame(s.next_seq_num % max_seq_num, data)
      s1 == [s EXCEPT
               !.data_buffer = Tail(@),
               !.window = [n \in DOMAIN @ \cup {s.next_seq_num} |->
                             IF n = s.next_seq_num
                               THEN [frame |-> frame, timestamp |-> time_time(s),
                                     data |-> data]
                               ELSE @[n]],
               !.individual_timers = [n \in DOMAIN @ \cup {s.next_seq_num} |->
                             IF n = s.next_seq_num THEN time_time(s) ELSE @[n]],
               !.total_transmissions = @ + 1]
      rx == receive_frame(r, frame, outcome)
      s2 == process_acks(s1, rx.ack_nums)
      s3 == [s2 EXCEPT !.next_seq_num = @ + 1]
  IN [sender |-> s3, receiver |-> rx.receiver,
      call |-> [inst |-> s.next_seq_num, frame |-> frame, outcome |-> outcome,
                ack_nums |-> rx.ack_nums, retransmit |-> FALSE,
                delivered_before |-> s.next_seq_num < r.base]]

\* check_individual_timeouts, first loop: the timers that have run out, the
\* k oldest, in dict order (keys are inserted in increasing order and never
\* re-inserted)
expired_timers(s, k) ==
  SortedSeq({n \in DOMAIN s.individual_timers : Rank(s, s.individual_timers[n]) <= k})

\* mutant: the retransmission restarts the timer of every outstanding frame
selective_retransmit_all_timers(s, r, seq_num, outcome) ==
  IF seq_num \notin DOMAIN s.window
    THEN [sender |-> s, receiver |-> r, call |-> NoCall]
    ELSE
      LET frame == s.window[seq_num].frame
          s1 == [s EXCEPT
                   !.total_transmissions = @ + 1,
                   !.retransmissions = @ + 1,
                   !.window = [n \in DOMAIN @ |-> [@[n] EXCEPT !.timestamp = time_time(s)]],
                   !.individual_timers = [n \in DOMAIN @ |-> time_time(s)]]
          rx == receive_frame(r, frame, outcome)
          s2 == process_acks(s1, rx.ack_nums)
      IN [sender |-> s2, receiver |-> rx.receiver,
          call |-> [inst |-> seq_num, frame |-> frame, outcome |-> outcome,
                    ack_nums |-> rx.ack_nums, retransmit |-> TRUE,
                    delivered_before |-> seq_num < r.base]]

selective_retransmit(s, r, seq_num, outcome) ==
  IF seq_num \notin DOMAIN s.window
    THEN [sender |-> s, receiver |-> r, call |-> NoCall]
    ELSE
      LET frame == s.window[seq_num].frame
          s1 == [s EXCEPT
                   !.total_transmissions = @ + 1,
                   !.retransmissions = @ + 1,
                   !.window[seq_num].timestamp = time_time(s),
                   !.individual_timers[seq_num] = time_time(s)]
          rx == receive_frame(r, frame, outcome)
          s2 == process_acks(s1, rx.ack_nums)
      IN [sender |-> s2, receiver |-> rx.receiver,
          call |-> [inst |-> seq_num, frame |-> frame, outcome |-> outcome,
                    ack_nums |-> rx.ack_nums, retransmit |-> TRUE,
                    delivered_before |-> seq_num < r.base]]

\* ------------------------------------------------------- GoBackNReceiver
GBNReceiverInit ==
  [expected_seq_num |-> 0, received_frames |-> <<>>,
   total_frames_received |-> 0, frames_discarded |-> 0]

gbn_send_ack(outcome) == outcome # "ack_lost"

gbn_receive_frame_accept_all(r, frame, outcome) ==
  LET r1 == [r EXCEPT !.total_frames_received = @ + 1]
  IN IF outcome = "lost" THEN [receiver |-> r1, ack_num |-> <<>>]
     ELSE IF outcome = "corrupted"
       THEN [receiver |-> [r1 EXCEPT !.frames_discarded = @ + 1], ack_num |-> <<>>]
     ELSE [receiver |-> [r1 EXCEPT !.received_frames = Append(@, frame.data),
                                   !.expected_seq_num = @ + 1],
           ack_num |-> IF gbn_send_ack(outcome) THEN <<frame.seq_num>> ELSE <<>>]

gbn_receive_frame_ack_expected(r, frame, outcome) ==
  LET r1 == [r EXCEPT !.total_frames_received = @ + 1]
  IN IF outcome = "lost" THEN [receiver |-> r1, ack_num |-> <<>>]
     ELSE IF outcome = "corrupted"
       THEN [receiver |-> [r1 EXCEPT !.frames_discarded = @ + 1], ack_num |-> <<>>]
     ELSE IF frame.seq_num = r1.expected_seq_num % max_seq_num
       THEN [receiver |-> [r1 EXCEPT !.received_frames = Append(@, frame.data),
                                     !.expected_seq_num = @ + 1],
             ack_num |-> IF gbn_send_ack(outcome) THEN <<frame.seq_num>> ELSE <<>>]
     ELSE LET r2 == [r1 EXCEPT !.frames_discarded = @ + 1]
          IN [receiver |-> r2,
              ack_num |-> IF r2.expected_seq_num > 0 /\ gbn_send_ack(outcome)
                            THEN <<r2.expected_seq_num % max_seq_num>> ELSE <<>>]

\* receive_frame: the new receiver and the returned ACK (None is <<>>)
gbn_receive_frame(r, frame, outcome) ==
  LET r1 == [r EXCEPT !.total_frames_received = @ + 1]
  IN IF outcome = "lost" THEN [receiver |-> r1, ack_num |-> <<>>]
     ELSE IF outcome = "corrupted"
       THEN [receiver |-> [r1 EXCEPT !.frames_discarded = @ + 1], ack_num |-> <<>>]
     ELSE IF frame.seq_num = r1.expected_seq_num % max_seq_num
       THEN [receiver |-> [r1 EXCEPT !.received_frames = Append(@, frame.data),
                                     !.expected_seq_num = @ + 1],
             ack_num |-> IF gbn_send_ack(outcome) THEN <<frame.seq_num>> ELSE <<>>]
     ELSE LET r2 == [r1 EXCEPT !.frames_discarded = @ + 1]
              last_correct_frame == (r2.expected_seq_num - 1) % max_seq_num
          IN [receiver |-> r2,
              ack_num |-> IF r2.expected_seq_num > 0 /\ gbn_send_ack(outcome)
                            THEN <<last_correct_frame>> ELSE <<>>]

\* ---------------------------------------------------------- GoBackNSender
GBNSenderInit(window_size, n) ==
  [window_size |-> window_size, base |-> 0, next_seq_num |-> 0,
   window |-> <<>>, data_buffer |-> [i \in 1..n |-> i],
   total_transmissions |-> 0, retransmissions |-> 0, timer_active |-> FALSE,
   total_retransmission_count |-> 0]

gbn_can_send(s) ==
  s.next_seq_num < s.base + s.window_size /\ Len(s.data_buffer) > 0

is_in_range_no_wrap(seq_num, start, end) == start <= seq_num /\ seq_num <= end

is_in_range(seq_num, start, end) ==
  IF start <= end
    THEN start <= seq_num /\ seq_num <= end
    ELSE seq_num >= start \/ seq_num <= end

gbn_process_ack(s, ack_num) ==
  LET frames_to_remove == {n \in DOMAIN s.window : is_in_range(n, s.base, ack_num)}
  IN [s EXCEPT
       !.window = Restrict(@, DOMAIN @ \ frames_to_remove),
       !.base = IF frames_to_remove # {} THEN Max(frames_to_remove) + 1 ELSE @]

\* "if ack_num is not None: self.process_ack(ack_num)"
gbn_process_reply(s, reply) ==
  IF reply = <<>> THEN s ELSE gbn_process_ack(s, reply[1])

\* send_frames, inner loop body: admit one new frame
gbn_send_new_frame(s, r, outcome) ==
  LET data == Head(s.data_buffer)
      frame == Frame(s.next_seq_num % max_seq_num, data)
      s1 == [s EXCEPT
               !.data_buffer = Tail(@),
               !.window = [n \in DOMAIN @ \cup {s.next_seq_num} |->
                             IF n = s.next_seq_num
                               THEN [frame |-> frame, data |-> data]
                               ELSE @[n]],
               !.total_transmissions = @ + 1]
      rx == gbn_receive_frame(r, frame, outcome)
      s2 == gbn_process_reply(s1, rx.ack_num)
      s3 == [s2 EXCEPT !.next_seq_num = @ + 1]
  IN [sender |-> s3, receiver |-> rx.receiver,
      call |-> [inst |-> s.next_seq_num, frame |-> frame, outcome |-> outcome,
                ack_num |-> rx.ack_num, retransmit |-> FALSE]]

oldest_unacked_of(s) == CHOOSE n \in DOMAIN s.window : \A m \in DOMAIN s.window : n <= m

\* check_timeouts: there is an oldest unacknowledged frame and its stamp has
\* run out (timed_out).  The stamp of the oldest frame is the only one the
\* sender ever reads, so the window entries carry no stamp.
check_timeouts(s, timed_out) == DOMAIN s.window # {} /\ timed_out

go_back_n_retransmit_no_budget(s, failed_seq_num) ==
  LET all == SortedSeq({n \in DOMAIN s.window : n >= failed_seq_num})
  IN SubSeq(all, 1, Min(Len(all), s.window_size))

\* go_back_n_retransmit up to its for loop: the frames to retransmit
go_back_n_retransmit(s, failed_seq_num) ==
  IF s.total_retransmission_count >= max_retransmissions THEN <<>>
  ELSE LET all == SortedSeq({n \in DOMAIN s.window : n >= failed_seq_num})
       IN SubSeq(all, 1, Min(Len(all), s.window_size))

NoGBNCall == [inst |-> -1, frame |-> Frame(0, 0), outcome |-> "none",
              ack_num |-> <<>>, retransmit |-> FALSE]

\* go_back_n_retransmit, one pass of "for seq_num in frames_to_retransmit";
\* stop: the pass ended in "break"; sent: the frame reached receive_frame
retransmit_frame(s, r, seq_num, outcome) ==
  IF seq_num \notin DOMAIN s.window
    THEN [sender |-> s, receiver |-> r, call |-> NoGBNCall, stop |-> FALSE, sent |-> FALSE]
    ELSE
      LET frame == s.window[seq_num].frame
          s1 == [s EXCEPT
                   !.total_transmissions = @ + 1,
                   !.retransmissions = @ + 1,
                   !.total_retransmission_count = @ + 1]
      IN IF s1.total_retransmission_count >= max_retransmissions
           THEN [sender |-> s1, receiver |-> r, call |-> NoGBNCall,
                 stop |-> TRUE, sent |-> FALSE]
           ELSE
             LET rx == gbn_receive_frame(r, frame, outcome)
                 s3 == gbn_process_reply(s1, rx.ack_num)
             IN [sender |-> s3, receiver |-> rx.receiver,
                 call |-> [inst |-> seq_num, frame |-> frame, outcome |-> outcome,
                           ack_num |-> rx.ack_num, retransmit |-> TRUE],
                 stop |-> FALSE, sent |-> TRUE]

\* ----------------------------------------------------------- GBN actions
GBNInit ==
  \E w \in 1..MaxWindow, n \in 0..MaxPayloads :
    /\ gbn_sender = GBNSenderInit(w, n)
    /\ gbn_receiver = GBNReceiverInit
    /\ gbn_pc = "while"
    /\ iteration_count = 0
    /\ gbn_batch = <<>>
    /\ gbn_last = NoGBNCall
    /\ gbn_retransmitted = {}
    /\ gbn_returned = <<>>

\* position of the next frame among all frames handed to the receiver
GBNNextTx == gbn_receiver.total_frames_received + 1

\* what send_frames returns after its loop, whichever message it prints
send_frames_returns(s, iterations) == TRUE

GBNWhile_no_cap ==
  /\ gbn_pc = "while"
  /\ IF Len(gbn_sender.data_buffer) > 0 \/ DOMAIN gbn_sender.window # {}
       THEN /\ gbn_channel.kind # "dead" => iteration_count < MaxPasses
            /\ gbn_pc' = "send" /\ iteration_count' = iteration_count + 1
            /\ UNCHANGED gbn_returned
       ELSE /\ gbn_pc' = "done" /\ UNCHANGED iteration_count
            /\ gbn_returned' = <<send_frames_returns(gbn_sender, iteration_count)>>
  /\ UNCHANGED <<gbn_sender, gbn_receiver, gbn_batch, gbn_last,
                 gbn_retransmitted, gbn_channel>>

\* while (self.data_buffer or self.window) and iteration_count < max_iterations
\* (runs over a dead channel are followed up to max_iterations, the others
\* for MaxPasses passes)
GBNWhile ==
  /\ gbn_pc = "while"
  /\ IF /\ Len(gbn_sender.data_buffer) > 0 \/ DOMAIN gbn_sender.window # {}
        /\ iteration_count < max_iterations
       THEN /\ gbn_channel.kind # "dead" => iteration_count < MaxPasses
            /\ gbn_pc' = "send" /\ iteration_count' = iteration_count + 1
            /\ UNCHANGED gbn_returned
       ELSE /\ gbn_pc' = "done" /\ UNCHANGED iteration_count
            /\ gbn_returned' = <<send_frames_returns(gbn_sender, iteration_count)>>
  /\ UNCHANGED <<gbn_sender, gbn_receiver, gbn_batch, gbn_last,
                 gbn_retransmitted, gbn_channel>>

\* while self.can_send(): one pass
GBNSendFrame ==
  /\ gbn_pc = "send"
  /\ gbn_can_send(gbn_sender)
  /\ \E outcome \in Draws(gbn_channel, GBNNextTx) :
       LET res == gbn_send_new_frame(gbn_sender, gbn_receiver, outcome)
       IN /\ gbn_sender' = res.sender
          /\ gbn_receiver' = res.receiver
          /\ gbn_last' = res.call
          /\ gbn_channel' = Drawn(gbn_channel, outcome)
  /\ UNCHANGED <<gbn_pc, iteration_count, gbn_batch, gbn_retransmitted, gbn_returned>>

\* "if iteration_count % 3 == 0: self.check_timeouts(receiver)", up to the
\* for loop of go_back_n_retransmit
GBNCheckTimeouts ==
  /\ gbn_pc = "send"
  /\ ~gbn_can_send(gbn_sender)
  /\ \E timed_out \in BOOLEAN :
       gbn_batch' = IF iteration_count % 3 = 0 /\ check_timeouts(gbn_sender, timed_out)
                      THEN go_back_n_retransmit(gbn_sender, oldest_unacked_of(gbn_sender))
                      ELSE <<>>
  /\ gbn_pc' = "retransmit"
  /\ UNCHANGED <<gbn_sender, gbn_receiver, iteration_count, gbn_last,
                 gbn_retransmitted, gbn_channel, gbn_returned>>

\* go_back_n_retransmit: one pass of "for seq_num in frames_to_retransmit"
GBNRetransmit ==
  /\ gbn_pc = "retransmit"
  /\ gbn_batch # <<>>
  /\ LET seq_num == Head(gbn_batch)
     IN \E outcome \in Draws(gbn_channel, GBNNextTx) :
          LET res == retransmit_frame(gbn_sender, gbn_receiver, seq_num, outcome)
          IN /\ gbn_sender' = res.sender
             /\ gbn_receiver' = res.receiver
             /\ gbn_last' = IF res.sent THEN res.call ELSE gbn_last
             /\ gbn_retransmitted' =
                  IF res.sent THEN gbn_retransmitted \cup {seq_num} ELSE gbn_retransmitted
             /\ gbn_channel' = IF res.sent THEN Drawn(gbn_channel, outcome) ELSE gbn_channel
             /\ gbn_batch' = IF res.stop THEN <<>> ELSE Tail(gbn_batch)
  /\ UNCHANGED <<gbn_pc, iteration_count, gbn_returned>>

\* the break test that ends a pass
GBNEndPass ==
  /\ gbn_pc = "retransmit"
  /\ gbn_batch = <<>>
  /\ IF DOMAIN gbn_sender.window = {} /\ Len(gbn_sender.data_buffer) = 0
       THEN /\ gbn_pc' = "done"
            /\ gbn_returned' = <<send_frames_returns(gbn_sender, iteration_count)>>
       ELSE gbn_pc' = "while" /\ UNCHANGED gbn_returned
  /\ UNCHANGED <<gbn_sender, gbn_receiver, iteration_count, gbn_batch, gbn_last,
                 gbn_retransmitted, gbn_channel>>

\* ------------------------------------------------------------ SR actions
SRInit ==
  \E w \in 1..MaxWindow, n \in 0..MaxPayloads :
    /\ sr_sender = SRSenderInit(w, n)
    /\ sr_receiver = SRReceiverInit(w)
    /\ sr_pc = "while"
    /\ frames_to_retransmit = <<>>
    /\ sr_last = NoCall

\* position of the next transmission among all transmissions of the run
NextTx == sr_sender.total_transmissions + 1

\* while self.data_buffer or self.window
SRWhile ==
  /\ sr_pc = "while"
  /\ sr_pc' = IF Len(sr_sender.data_buffer) > 0 \/ DOMAIN sr_sender.window # {}
                THEN "send" ELSE "done"
  /\ UNCHANGED <<sr_sender, sr_receiver, frames_to_retransmit, sr_last, sr_channel, sr_counting>>

\* while self.can_send(): one pass
SRSendFrame ==
  /\ sr_pc = "send"
  /\ can_send(sr_sender)
  /\ \E outcome \in Draws(sr_channel, NextTx) :
       LET res == send_new_frame(sr_sender, sr_receiver, outcome)
       IN /\ sr_sender' = SenderStats(res.sender)
          /\ sr_receiver' = ReceiverStats(res.receiver)
          /\ sr_last' = res.call
          /\ sr_channel' = Drawn(sr_channel, outcome)
  /\ UNCHANGED <<sr_pc, frames_to_retransmit, sr_counting>>

\* check_individual_timeouts: collect the expired timers
SRCheckTimeouts ==
  /\ sr_pc = "send"
  /\ ~can_send(sr_sender)
  /\ \E k \in 0..Cardinality(DOMAIN sr_sender.individual_timers) :
       frames_to_retransmit' = expired_timers(sr_sender, k)
  /\ sr_pc' = "retransmit"
  /\ UNCHANGED <<sr_sender, sr_receiver, sr_last, sr_channel, sr_counting>>

\* check_individual_timeouts: one pass of "for seq_num in frames_to_retransmit"
SRRetransmit ==
  /\ sr_pc = "retransmit"
  /\ frames_to_retransmit # <<>>
  /\ (sr_counting /\ sr_channel.kind # "forced") =>
       sr_sender.retransmissions < MaxRetransmissions
  /\ LET seq_num == Head(frames_to_retransmit)
     IN IF seq_num \in DOMAIN sr_sender.window
          THEN \E outcome \in Draws(sr_channel, NextTx) :
                 LET res == selective_retransmit(sr_sender, sr_receiver, seq_num, outcome)
                 IN /\ sr_sender' = SenderStats(res.sender)
                    /\ sr_receiver' = ReceiverStats(res.receiver)
                    /\ sr_last' = res.call
                    /\ sr_channel' = Drawn(sr_channel, outcome)
          ELSE UNCHANGED <<sr_sender, sr_receiver, sr_last, sr_channel>>
  /\ frames_to_retransmit' = Tail(frames_to_retransmit)
  /\ UNCHANGED <<sr_pc, sr_counting>>

\* slide_window and the break test that ends a pass
SRSlideWindow ==
  /\ sr_pc = "retransmit"
  /\ frames_to_retransmit = <<>>
  /\ LET s == slide_window(sr_sender)
     IN /\ sr_sender' = s
        /\ sr_pc' = IF DOMAIN s.window = {} /\ Len(s.data_buffer) = 0
                      THEN "done" ELSE "while"
  /\ UNCHANGED <<sr_receiver, frames_to_retransmit, sr_last, sr_channel, sr_counting>>

\* the engine that a specification does not run stays as constructed
SRIdle ==
  /\ sr_sender = SRSenderInit(1, 0)
  /\ sr_receiver = SRReceiverInit(1)
  /\ sr_pc = "while"
  /\ frames_to_retransmit = <<>>
  /\ sr_last = NoCall
  /\ sr_channel = RandomChannel
  /\ sr_counting = TRUE

GBNIdle ==
  /\ gbn_sender = GBNSenderInit(1, 0)
  /\ gbn_receiver = GBNReceiverInit
  /\ gbn_pc = "while"
  /\ iteration_count = 0
  /\ gbn_batch = <<>>
  /\ gbn_last = NoGBNCall
  /\ gbn_retransmitted = {}
  /\ gbn_channel = RandomChannel
  /\ gbn_returned = <<>>

\* ------------------------------------------------------- Stop-and-Wait
\* StopAndWaitReceiver.send_ack: False when the ACK is lost
saw_send_ack(outcome) == outcome # "ack_lost"

\* mutant: the receiver forgets to toggle expected_seq_num on accept
saw_receive_frame_no_toggle(r, frame, outcome) ==
  IF outcome = "lost"
    THEN [receiver |-> r, returns |-> FALSE, accepted |-> FALSE, ack_sent |-> FALSE]
  ELSE IF outcome = "corrupted"
    THEN [receiver |-> r, returns |-> FALSE, accepted |-> FALSE, ack_sent |-> FALSE]
  ELSE IF frame.seq_num = r.expected_seq_num
    THEN [receiver |-> [r EXCEPT !.received_frames = Append(@, frame.data)],
          returns |-> TRUE, accepted |-> TRUE, ack_sent |-> saw_send_ack(outcome)]
  ELSE [receiver |-> r, returns |-> TRUE, accepted |-> FALSE,
        ack_sent |-> saw_send_ack(outcome)]

\* mutant: the payload is appended before the corruption test
saw_receive_frame_append_first(r, frame, outcome) ==
  IF outcome = "lost"
    THEN [receiver |-> r, returns |-> FALSE, accepted |-> FALSE, ack_sent |-> FALSE]
  ELSE IF outcome = "corrupted"
    THEN [receiver |-> [r EXCEPT !.received_frames = Append(@, frame.data)],
          returns |-> FALSE, accepted |-> FALSE, ack_sent |-> FALSE]
  ELSE IF frame.seq_num = r.expected_seq_num
    THEN [receiver |-> [r EXCEPT !.received_frames = Append(@, frame.data),
                                 !.expected_seq_num = 1 - @],
          returns |-> TRUE, accepted |-> TRUE, ack_sent |-> saw_send_ack(outcome)]
  ELSE [receiver |-> r, returns |-> TRUE, accepted |-> FALSE,
        ack_sent |-> saw_send_ack(outcome)]

saw_receive_frame_nak_duplicate(r, frame, outcome) ==
  IF outcome = "lost"
    THEN [receiver |-> r, returns |-> FALSE, accepted |-> FALSE, ack_sent |-> FALSE]
  ELSE IF outcome = "corrupted"
    THEN [receiver |-> r, returns |-> FALSE, accepted |-> FALSE, ack_sent |-> FALSE]
  ELSE IF frame.seq_num = r.expected_seq_num
    THEN [receiver |-> [r EXCEPT !.received_frames = Append(@, frame.data),
                                 !.expected_seq_num = 1 - @],
          returns |-> TRUE, accepted |-> TRUE, ack_sent |-> saw_send_ack(outcome)]
  ELSE [receiver |-> r, returns |-> FALSE, accepted |-> FALSE, ack_sent |-> FALSE]

\* StopAndWaitReceiver.receive_frame: the new receiver and the returned bool;
\* accepted and ack_sent record what happened inside the call (the value of
\* send_ack is computed and dropped, lines 114 and 118)
saw_receive_frame(r, frame, outcome) ==
  IF outcome = "lost"
    THEN [receiver |-> r, returns |-> FALSE, accepted |-> FALSE, ack_sent |-> FALSE]
  ELSE IF outcome = "corrupted"
    THEN [receiver |-> r, returns |-> FALSE, accepted |-> FALSE, ack_sent |-> FALSE]
  ELSE IF frame.seq_num = r.expected_seq_num
    THEN [receiver |-> [r EXCEPT !.received_frames = Append(@, frame.data),
                                 !.expected_seq_num = 1 - @],
          returns |-> TRUE, accepted |-> TRUE, ack_sent |-> saw_send_ack(outcome)]
  ELSE [receiver |-> r, returns |-> TRUE, accepted |-> FALSE,
        ack_sent |-> saw_send_ack(outcome)]

SAWSenderInit ==
  [seq_num |-> 0, waiting_for_ack |-> FALSE, current_frame |-> <<>>,
   retransmission_count |-> 0, total_transmissions |-> 0]

SAWReceiverInit == [expected_seq_num |-> 0, received_frames |-> <<>>]

NoSAWCall == [attempt |-> 0, frame |-> Frame(0, 0), outcome |-> "none",
              expected_before |-> 0, returns |-> FALSE, accepted |-> FALSE,
              ack_sent |-> FALSE]

keep_sending_off_by_one(s) ==
  s.waiting_for_ack /\ s.retransmission_count <= max_attempts

\* send_frame, the loop condition
keep_sending(s) == s.waiting_for_ack /\ s.retransmission_count < max_attempts

\* the caller: "for data in test_data: sender.send_frame(data, receiver)"
SAWInit ==
  \E n \in 0..MaxCalls :
    /\ saw_sender = SAWSenderInit
    /\ saw_receiver = SAWReceiverInit
    /\ saw_pc = "idle"
    /\ saw_data = [i \in 1..n |-> i]
    /\ saw_results = <<>>
    /\ saw_last = NoSAWCall

\* send_frame up to its while loop
SAWSendFrame ==
  /\ saw_pc = "idle"
  /\ saw_data # <<>>
  /\ saw_sender' = [saw_sender EXCEPT
                      !.current_frame = <<Frame(saw_sender.seq_num, Head(saw_data))>>,
                      !.waiting_for_ack = TRUE,
                      !.retransmission_count = 0]
  /\ saw_data' = Tail(saw_data)
  /\ saw_last' = NoSAWCall
  /\ saw_pc' = "loop"
  /\ UNCHANGED <<saw_receiver, saw_results, saw_channel>>

\* send_frame: one pass of "while self.waiting_for_ack and
\* self.retransmission_count < 5"
SAWAttempt ==
  /\ saw_pc = "loop"
  /\ keep_sending(saw_sender)
  /\ \E outcome \in Draws(saw_channel, saw_sender.total_transmissions + 1) :
       LET frame == saw_sender.current_frame[1]
           s1 == [saw_sender EXCEPT !.total_transmissions = @ + 1]
           rx == saw_receive_frame(saw_receiver, frame, outcome)
       IN /\ saw_receiver' = rx.receiver
          /\ saw_last' = [attempt |-> saw_last.attempt + 1, frame |-> frame,
                          outcome |-> outcome,
                          expected_before |-> saw_receiver.expected_seq_num,
                          returns |-> rx.returns, accepted |-> rx.accepted,
                          ack_sent |-> rx.ack_sent]
          /\ saw_channel' = Drawn(saw_channel, outcome)
          /\ IF rx.returns
               THEN /\ saw_sender' = [s1 EXCEPT !.waiting_for_ack = FALSE,
                                                !.seq_num = 1 - @]
                    /\ saw_results' = Append(saw_results, TRUE)
                    /\ saw_pc' = "idle"
               ELSE /\ saw_sender' = [s1 EXCEPT !.retransmission_count = @ + 1]
                    /\ saw_results' = saw_results
                    /\ saw_pc' = "loop"
  /\ UNCHANGED saw_data

SAWGiveUp_toggles ==
  /\ saw_pc = "loop"
  /\ ~keep_sending(saw_sender)
  /\ saw_sender' = [saw_sender EXCEPT !.seq_num = 1 - @]
  /\ saw_results' = Append(saw_results, FALSE)
  /\ saw_pc' = "idle"
  /\ UNCHANGED <<saw_receiver, saw_data, saw_last, saw_channel>>

\* send_frame: the loop condition fails, "return False"
SAWGiveUp ==
  /\ saw_pc = "loop"
  /\ ~keep_sending(saw_sender)
  /\ saw_results' = Append(saw_results, FALSE)
  /\ saw_pc' = "idle"
  /\ UNCHANGED <<saw_sender, saw_receiver, saw_data, saw_last, saw_channel>>

SAWIdle ==
  /\ saw_sender = SAWSenderInit
  /\ saw_receiver = SAWReceiverInit
  /\ saw_pc = "idle"
  /\ saw_data = <<>>
  /\ saw_results = <<>>
  /\ saw_last = NoSAWCall
  /\ saw_channel = RandomChannel

\* ------------------------------------------------- Selective Repeat runs
\* Runs in which at most MaxFaults transmissions fail, in any way and at any
\* place, followed with their statistics up to MaxRetransmissions
\* retransmissions.
Init ==
  /\ SRInit
  /\ \E f \in 0..MaxFaults : sr_channel = FairChannel(f)
  /\ sr_counting = TRUE
  /\ GBNIdle
  /\ SAWIdle

Next ==
  \/ SRWhile /\ UNCHANGED <<gbn_vars, saw_vars>>
  \/ SRSendFrame /\ UNCHANGED <<gbn_vars, saw_vars>>
  \/ SRCheckTimeouts /\ UNCHANGED <<gbn_vars, saw_vars>>
  \/ SRRetransmit /\ UNCHANGED <<gbn_vars, saw_vars>>
  \/ SRSlideWindow /\ UNCHANGED <<gbn_vars, saw_vars>>

Spec == Init /\ [][Next]_vars

\* Runs in which random.random() is fixed: the k-th transmitted frame is lost
\* (no frame at all for k = 0) and nothing else fails.
ScenarioInit ==
  /\ SRInit
  /\ \E k \in 0..MaxPayloads : sr_channel = ForcedLoss(k)
  /\ sr_counting = TRUE
  /\ GBNIdle
  /\ SAWIdle

ScenarioSpec == ScenarioInit /\ [][Next]_vars

\* Runs over a fair channel: after finitely many failed transmissions every
\* frame arrives intact and every ACK reaches the sender.  send_frames is a
\* sequential loop that always takes its next step, and it sleeps in every
\* pass, so that time passes and timers keep running out (SRTimeout).  The
\* statistics counters never influence the control flow of send_frames and
\* are not followed here, which keeps the state space finite without capping
\* the retransmissions.
LiveInit ==
  /\ SRInit
  /\ 2 * sr_sender.window_size <= max_seq_num
  /\ \E f \in 0..MaxFaults : sr_channel = FairChannel(f)
  /\ sr_counting = FALSE
  /\ GBNIdle
  /\ SAWIdle

\* Selective Repeat runs with every window size up to the sequence space,
\* long enough for a full window to lie past the wrap of the numbers:
\* max_seq_num + window_size payloads
SRWideInit ==
  /\ \E w \in 1..max_seq_num :
       /\ sr_sender = SRSenderInit(w, max_seq_num + w)
       /\ sr_receiver = SRReceiverInit(w)
  /\ sr_pc = "while"
  /\ frames_to_retransmit = <<>>
  /\ sr_last = NoCall
  /\ \E f \in 0..MaxFaults : sr_channel = FairChannel(f)
  /\ sr_counting = TRUE
  /\ GBNIdle
  /\ SAWIdle

SRWideSpec == SRWideInit /\ [][Next]_vars

\* a timeout check at which some timer has run out
SRTimeout == SRCheckTimeouts /\ frames_to_retransmit' # <<>> /\ UNCHANGED <<gbn_vars, saw_vars>>

LiveSpec == LiveInit /\ [][Next]_vars /\ WF_vars(Next) /\ SF_vars(SRTimeout)

\* Runs over a dead channel: every transmission is lost.  The loop keeps
\* taking its next step and timers keep running out, as in LiveSpec.
DeadInit ==
  /\ SRInit
  /\ sr_channel = DeadChannel
  /\ sr_counting = FALSE
  /\ GBNIdle
  /\ SAWIdle

DeadSpec == DeadInit /\ [][Next]_vars /\ WF_vars(Next) /\ SF_vars(SRTimeout)

\* ------------------------------------------------------- Go-Back-N runs
GBNNext ==
  \/ GBNWhile /\ UNCHANGED <<sr_vars, saw_vars>>
  \/ GBNSendFrame /\ UNCHANGED <<sr_vars, saw_vars>>
  \/ GBNCheckTimeouts /\ UNCHANGED <<sr_vars, saw_vars>>
  \/ GBNRetransmit /\ UNCHANGED <<sr_vars, saw_vars>>
  \/ GBNEndPass /\ UNCHANGED <<sr_vars, saw_vars>>

\* Go-Back-N runs in which at most MaxFaults transmissions fail, in any way
\* and at any place, followed for MaxPasses passes of the main loop
GBNSpecInit ==
  /\ GBNInit
  /\ \E f \in 0..MaxFaults : gbn_channel = FairChannel(f)
  /\ SRIdle
  /\ SAWIdle

GBNSpec == GBNSpecInit /\ [][GBNNext]_vars

\* Go-Back-N runs in which exactly the k-th transmitted frame is lost
GBNScenarioInit ==
  /\ GBNInit
  /\ \E k \in 0..MaxPayloads : gbn_channel = ForcedLoss(k)
  /\ SRIdle
  /\ SAWIdle

GBNScenarioSpec == GBNScenarioInit /\ [][GBNNext]_vars

\* Go-Back-N runs long enough for a full window to lie past the wrap of the
\* sequence numbers: max_seq_num + window_size payloads
GBNWrapInit ==
  /\ \E w \in 1..MaxWindow : gbn_sender = GBNSenderInit(w, max_seq_num + w)
  /\ gbn_receiver = GBNReceiverInit
  /\ gbn_pc = "while"
  /\ iteration_count = 0
  /\ gbn_batch = <<>>
  /\ gbn_last = NoGBNCall
  /\ gbn_retransmitted = {}
  /\ gbn_returned = <<>>
  /\ \E f \in 0..MaxFaults : gbn_channel = FairChannel(f)
  /\ SRIdle
  /\ SAWIdle

GBNWrapSpec == GBNWrapInit /\ [][GBNNext]_vars

\* Go-Back-N runs over a dead channel, followed until send_frames returns;
\* send_frames is a sequential loop that always takes its next step
GBNCapInit ==
  /\ GBNInit
  /\ gbn_channel = DeadChannel
  /\ SRIdle
  /\ SAWIdle

GBNCapSpec == GBNCapInit /\ [][GBNNext]_vars /\ WF_vars(GBNNext)

\* ------------------------------------------------------ Stop-and-Wait runs
SAWSpecInit ==
  /\ SAWInit
  /\ saw_channel = RandomChannel
  /\ SRIdle
  /\ GBNIdle

SAWNext ==
  \/ SAWSendFrame /\ UNCHANGED <<sr_vars, gbn_vars>>
  \/ SAWAttempt /\ UNCHANGED <<sr_vars, gbn_vars>>
  \/ SAWGiveUp /\ UNCHANGED <<sr_vars, gbn_vars>>

SAWSpec == SAWSpecInit /\ [][SAWNext]_vars

\* a receiver on its own: receive_frame is handed frames of either sequence
\* bit, whatever the receiver expects
SAWReceive ==
  /\ saw_last.attempt < MaxCalls
  /\ \E seq_num \in {0, 1}, data \in 1..MaxCalls, outcome \in Outcomes :
       LET frame == Frame(seq_num, data)
           rx == saw_receive_frame(saw_receiver, frame, outcome)
       IN /\ saw_receiver' = rx.receiver
          /\ saw_last' = [attempt |-> saw_last.attempt + 1, frame |-> frame,
                          outcome |-> outcome,
                          expected_before |-> saw_receiver.expected_seq_num,
                          returns |-> rx.returns, accepted |-> rx.accepted,
                          ack_sent |-> rx.ack_sent]
  /\ UNCHANGED <<saw_sender, saw_pc, saw_data, saw_results, saw_channel>>

SAWReceiverSpecInit ==
  /\ saw_sender = SAWSenderInit
  /\ saw_receiver = SAWReceiverInit
  /\ saw_pc = "idle"
  /\ saw_data = <<>>
  /\ saw_results = <<>>
  /\ saw_last = NoSAWCall
  /\ saw_channel = RandomChannel
  /\ SRIdle
  /\ GBNIdle

SAWReceiverNext == SAWReceive /\ UNCHANGED <<sr_vars, gbn_vars>>

SAWReceiverSpec == SAWReceiverSpecInit /\ [][SAWReceiverNext]_vars

\* compare_protocols: both windowed engines are run on the same payloads with
\* the same window size, here over the same forced-loss channel
CompareInit ==
  /\ SRInit
  /\ GBNInit
  /\ gbn_sender.window_size = sr_sender.window_size
  /\ Len(gbn_sender.data_buffer) = Len(sr_sender.data_buffer)
  /\ \E k \in 0..MaxPayloads : sr_channel = ForcedLoss(k) /\ gbn_channel = ForcedLoss(k)
  /\ sr_counting = TRUE
  /\ SAWIdle

CompareNext == Next \/ GBNNext

CompareSpec == CompareInit /\ [][CompareNext]_vars

\* =================================================================== claims
NumPayloads == sr_sender.next_seq_num + Len(sr_sender.data_buffer)

Delivered == sr_receiver.received_frames

\* a step in which send_frames called receiver.receive_frame
SRCallStep == sr_receiver'.total_frames_received = sr_receiver.total_frames_received + 1

\* a step in which selective_retransmit sent a frame
SRRetransmitStep == sr_sender'.retransmissions = sr_sender.retransmissions + 1

\* C1: over a fair channel and with window_size <= 4, send_frames eventually
\* returns, whatever the number of payloads.
C1_EventuallyReturns ==
  sr_sender.window_size <= 4 => <>(sr_pc = "done")

\* C2: with window_size <= 4 the delivered payloads are never out of input
\* order: a payload delivered later is never one that was given to add_data
\* earlier than a payload delivered before it.
C2_InOrderDelivery ==
  sr_sender.window_size <= 4 =>
    \A p, q \in DOMAIN Delivered : p < q => ~(Delivered[q] < Delivered[p])

\* a retransmitted frame filled the gap in front of frames buffered out of order
C2_Witness ==
  /\ sr_sender.window_size <= 4
  /\ sr_last.retransmit /\ sr_last.outcome = "ok" /\ ~sr_last.delivered_before
  /\ Len(Delivered) > sr_last.inst + 1

\* C3: with window_size <= 4 no payload instance is delivered twice.
C3_NoDuplicateDelivery ==
  sr_sender.window_size <= 4 =>
    \A p, q \in DOMAIN Delivered : p # q => Delivered[p] # Delivered[q]

\* a frame delivered before, with a reused sequence number, arrived again intact
C3_Witness ==
  /\ sr_sender.window_size <= 4
  /\ sr_last.retransmit /\ sr_last.delivered_before
  /\ sr_last.outcome \in {"ok", "ack_lost"}
  /\ sr_last.inst >= max_seq_num

\* C4: when send_frames has returned (window_size <= 4) the receiver has
\* delivered the whole input, in order, and its buffer is empty.
C4_CompleteOnReturn ==
  (sr_pc = "done" /\ sr_sender.window_size <= 4) =>
    /\ Delivered = [i \in 1..NumPayloads |-> i]
    /\ DOMAIN sr_receiver.buffer = {}

\* a run over more than max_seq_num payloads with a retransmission has returned
C4_Witness ==
  /\ sr_pc = "done" /\ sr_sender.window_size <= 4
  /\ NumPayloads > max_seq_num
  /\ sr_sender.retransmissions >= 1

\* C5: a frame the receiver has already delivered, arriving again intact with
\* the ACK not lost, is acknowledged and neither buffered nor delivered again
\* (stated for the window sizes the protocol allows, window_size <= 4).
C5_IdempotentDuplicate ==
  [][(/\ sr_sender.window_size <= 4
      /\ SRCallStep /\ sr_last'.delivered_before /\ sr_last'.outcome = "ok") =>
       /\ sr_last'.ack_nums = <<sr_last'.frame.seq_num>>
       /\ sr_receiver'.buffer = sr_receiver.buffer
       /\ sr_receiver'.received_frames = sr_receiver.received_frames]_vars

\* C6: selective_retransmit(n) adds one to the counters, hands exactly the
\* frame of n to the receiver and restamps only n: every other outstanding
\* instance keeps its window entry and its timer unchanged.
C6_SelectiveOnly ==
  [][SRRetransmitStep =>
       LET n == sr_last'.inst
           others == DOMAIN sr_sender.window \ {n}
       IN /\ n \in DOMAIN sr_sender.window
          /\ sr_last'.frame = sr_sender.window[n].frame
          /\ sr_sender'.total_transmissions = sr_sender.total_transmissions + 1
          /\ sr_sender'.retransmissions = sr_sender.retransmissions + 1
          /\ sr_receiver'.total_frames_received = sr_receiver.total_frames_received + 1
          /\ DOMAIN sr_sender'.window \in {DOMAIN sr_sender.window, others}
          /\ DOMAIN sr_sender'.individual_timers = DOMAIN sr_sender'.window
          /\ \A m \in others :
               /\ sr_sender'.window[m] = sr_sender.window[m]
               /\ sr_sender'.individual_timers[m] = sr_sender.individual_timers[m]
          /\ n \in DOMAIN sr_sender'.window =>
               /\ sr_sender'.window[n].frame = sr_sender.window[n].frame
               /\ \A m \in others :
                    /\ sr_sender'.window[m].timestamp < sr_sender'.window[n].timestamp
                    /\ sr_sender'.individual_timers[m] < sr_sender'.individual_timers[n]]_vars

\* a frame was retransmitted while another frame was outstanding
C6_Witness ==
  /\ sr_last.retransmit
  /\ DOMAIN sr_sender.window \ {sr_last.inst} # {}

\* C7: between sender operations 0 <= next_seq_num - base <= window_size.
C7_SenderWindow ==
  /\ 0 <= sr_sender.next_seq_num - sr_sender.base
  /\ sr_sender.next_seq_num - sr_sender.base <= sr_sender.window_size

\* the window is full after the base has moved
C7_Witness ==
  /\ sr_sender.base > 0
  /\ sr_sender.next_seq_num - sr_sender.base = sr_sender.window_size
  /\ sr_sender.retransmissions >= 1

\* C8: every key of the receiver buffer lies in the current receive window,
\* and receive_frame adds a key only for a frame that is_in_window accepts.
C8_BufferInWindow ==
  /\ [](\A k \in DOMAIN sr_receiver.buffer : is_in_window(sr_receiver, k))
  /\ [][\A k \in DOMAIN sr_receiver'.buffer \ DOMAIN sr_receiver.buffer :
          /\ k = sr_last'.frame.seq_num
          /\ is_in_window(sr_receiver, k)]_vars

\* a frame is buffered in the part of the window that wrapped past max_seq_num
C8_Witness ==
  \E k \in DOMAIN sr_receiver.buffer : k < sr_receiver.base % max_seq_num

\* C10: window size 3, 5 payloads, only the 3rd transmitted frame lost: the
\* only frame ever retransmitted is that one (instance 2), it is retransmitted
\* once, and the run ends with retransmissions = 1, total_transmissions = 6.
C10_SingleLossSelectiveRepeat ==
  (/\ sr_sender.window_size = 3
   /\ NumPayloads = 5
   /\ sr_channel = ForcedLoss(3)) =>
    /\ sr_last.retransmit => sr_last.inst = 2
    /\ sr_sender.retransmissions <= 1
    /\ sr_pc = "done" =>
         /\ sr_sender.retransmissions = 1
         /\ sr_sender.total_transmissions = 6

\* the scenario's run has returned after its retransmission
C10_Witness ==
  /\ sr_sender.window_size = 3
  /\ NumPayloads = 5
  /\ sr_channel = ForcedLoss(3)
  /\ sr_pc = "done"
  /\ sr_last.retransmit

GBNNumPayloads == gbn_sender.next_seq_num + Len(gbn_sender.data_buffer)

\* C9: Go-Back-N, window size 3, 5 payloads, only the 3rd transmitted frame
\* lost: when send_frames has returned, the lost frame (instance 2) and the
\* frames sent after it (instances 3 and 4) have been retransmitted.
C9_SingleLossGoBackN ==
  (/\ gbn_sender.window_size = 3
   /\ GBNNumPayloads = 5
   /\ gbn_channel = ForcedLoss(3)
   /\ gbn_pc = "done") =>
    {2, 3, 4} \subseteq gbn_retransmitted

\* the payloads 1..n in their input order
InputOrder(n) == [i \in 1..n |-> i]

\* C11: window size 3 and no fault at all: neither engine ever retransmits,
\* and when send_frames has returned it has made exactly one transmission per
\* payload and the receiver holds the payloads in their input order.
C11_FaultFreeRun ==
  (/\ sr_sender.window_size = 3
   /\ sr_channel = ForcedLoss(0)) =>
    /\ sr_sender.retransmissions = 0
    /\ gbn_sender.retransmissions = 0
    /\ sr_pc = "done" =>
         /\ sr_sender.total_transmissions = NumPayloads
         /\ Delivered = InputOrder(NumPayloads)
    /\ gbn_pc = "done" =>
         /\ gbn_sender.total_transmissions = GBNNumPayloads
         /\ gbn_receiver.received_frames = InputOrder(GBNNumPayloads)

\* both engines have returned from a fault-free run of more than max_seq_num
\* payloads
C11_Witness ==
  /\ sr_sender.window_size = 3
  /\ sr_channel = ForcedLoss(0)
  /\ NumPayloads > max_seq_num
  /\ sr_pc = "done"
  /\ gbn_pc = "done"

\* C12: with window_size <= 4 the payloads held by the Go-Back-N receiver are
\* payloads of the input, in strictly increasing input position: none is
\* delivered twice and none after a later one.
C12_GBNOrderedDelivery ==
  gbn_sender.window_size <= 4 =>
    LET received == gbn_receiver.received_frames
    IN /\ \A p \in DOMAIN received : received[p] \in 1..GBNNumPayloads
       /\ \A p, q \in DOMAIN received : p < q => received[p] < received[q]

\* a frame that was delivered before a later one reached the receiver again,
\* intact
C12_Witness ==
  /\ gbn_sender.window_size <= 4
  /\ gbn_last.retransmit
  /\ gbn_last.outcome = "ok"
  /\ \E p \in DOMAIN gbn_receiver.received_frames :
       /\ p < Len(gbn_receiver.received_frames)
       /\ gbn_receiver.received_frames[p] = gbn_last.frame.data

\* C13: even when every transmission is lost, the Selective Repeat
\* send_frames eventually returns.
C13_SRReturnsOnDeadChannel == <>(sr_pc = "done")

\* C14: the Go-Back-N send_frames returns, after at most max_iterations (500)
\* passes of its main loop, and a pass is never begun without the cap having
\* been checked.
C14_GBNReturnsWithinCap ==
  /\ [](iteration_count <= max_iterations)
  /\ [][iteration_count' # iteration_count =>
          /\ iteration_count < max_iterations
          /\ iteration_count' = iteration_count + 1]_vars
  /\ <>(gbn_pc = "done")

\* send_frames returned because the cap was reached, frames still outstanding
C14_Witness ==
  /\ gbn_pc = "done"
  /\ iteration_count = max_iterations
  /\ DOMAIN gbn_sender.window # {}

\* a step in which a send_frame call begins
SAWCallStep == saw_pc = "idle" /\ saw_pc' = "loop"

\* a step in which a send_frame call returns
SAWReturnStep == Len(saw_results') = Len(saw_results) + 1

\* a step in which send_frame hands its frame to the receiver
SAWAttemptStep == saw_sender'.total_transmissions = saw_sender.total_transmissions + 1

\* C15: a send_frame call transmits its frame at least once and at most 5
\* times; after 5 unacknowledged attempts it returns False; and whatever the
\* earlier calls returned, the next call starts afresh: no attempt made yet,
\* waiting for an ACK, carrying the next payload under the sequence number
\* the receiver expects.
C15_RetryLimit ==
  /\ [](saw_last.attempt <= max_attempts)
  /\ [][SAWReturnStep =>
          /\ saw_last'.attempt \in 1..max_attempts
          /\ saw_results'[Len(saw_results')] = saw_last'.returns]_vars
  /\ [][(saw_pc = "loop" /\ saw_last.attempt = max_attempts /\ ~saw_last.returns) =>
          /\ saw_results' = Append(saw_results, FALSE)
          /\ saw_pc' = "idle"]_vars
  /\ [][SAWCallStep =>
          /\ saw_sender'.waiting_for_ack
          /\ saw_sender'.retransmission_count = 0
          /\ saw_sender'.current_frame[1].data = Head(saw_data)
          /\ saw_sender'.current_frame[1].seq_num = saw_receiver.expected_seq_num
          /\ keep_sending(saw_sender')]_vars

\* a send_frame call failed after 5 attempts and the call for the next payload
\* succeeded and delivered it
C15_Witness ==
  \E k \in 1..(Len(saw_results) - 1) :
    /\ ~saw_results[k]
    /\ saw_results[k + 1]
    /\ saw_sender.total_transmissions >= max_attempts + 1
    /\ \E p \in DOMAIN saw_receiver.received_frames :
         saw_receiver.received_frames[p] = k + 1

\* C16: when the receiver accepts a frame and the ACK for it is lost, the
\* sender sees no ACK in that attempt: it counts one more retry, keeps its
\* sequence bit and its frame, and stays in the loop to retransmit.
C16_AckLossRetransmits ==
  [][(SAWAttemptStep /\ saw_last'.accepted /\ ~saw_last'.ack_sent) =>
       /\ saw_sender'.retransmission_count = saw_sender.retransmission_count + 1
       /\ saw_sender'.seq_num = saw_sender.seq_num
       /\ saw_sender'.current_frame = saw_sender.current_frame
       /\ saw_sender'.waiting_for_ack
       /\ saw_pc' = "loop"]_vars

\* C17: the sender's sequence bit is always 0 or 1; it changes only in an
\* attempt for which receive_frame reported an ACK, and then it toggles; a
\* call that returns False ends with the bit it started with, a call that
\* returns True with the other one.
C17_SequenceBit ==
  /\ [](saw_sender.seq_num \in {0, 1})
  /\ [][saw_sender'.seq_num # saw_sender.seq_num =>
          /\ SAWAttemptStep
          /\ saw_last'.returns
          /\ saw_sender'.seq_num = 1 - saw_sender.seq_num]_vars
  /\ [][SAWReturnStep =>
          saw_sender'.seq_num =
            IF saw_results'[Len(saw_results')]
              THEN 1 - saw_sender.current_frame[1].seq_num
              ELSE saw_sender.current_frame[1].seq_num]_vars

\* after one acknowledged call the second call failed with its 5 attempts,
\* and the bit is still the one the first call left
C17_Witness ==
  /\ Len(saw_results) = 2
  /\ saw_results[1]
  /\ ~saw_results[2]
  /\ saw_sender.retransmission_count = max_attempts
  /\ saw_sender.seq_num = 1
  /\ saw_sender.current_frame[1].seq_num = 1

\* a step in which receive_frame is called
SAWReceiveStep == saw_last'.attempt = saw_last.attempt + 1

\* C18: an intact frame whose sequence number is not the expected one makes
\* receive_frame report an ACK, leaves expected_seq_num as it was and appends
\* nothing to received_frames.
C18_DuplicateHandling ==
  [][(/\ SAWReceiveStep
      /\ saw_last'.outcome \in {"ok", "ack_lost"}
      /\ saw_last'.frame.seq_num # saw_receiver.expected_seq_num) =>
       /\ saw_last'.returns
       /\ saw_receiver'.expected_seq_num = saw_receiver.expected_seq_num
       /\ saw_receiver'.received_frames = saw_receiver.received_frames]_vars

\* the receiver accepted a frame and was then handed the same frame again,
\* intact: it reported an ACK and kept its single delivery
C18_Witness ==
  /\ saw_last.attempt >= 2
  /\ saw_last.outcome = "ok"
  /\ saw_last.frame.seq_num # saw_last.expected_before
  /\ saw_last.returns
  /\ ~saw_last.accepted
  /\ saw_receiver.received_frames = <<saw_last.frame.data>>
  /\ saw_receiver.expected_seq_num = saw_last.expected_before

\* C19: no Selective Repeat run starts with a window larger than half the
\* sequence space: such a sender or receiver is rejected when constructed.
C19_ConfigRejected ==
  sr_sender.total_transmissions > 0 =>
    /\ 2 * sr_sender.window_size <= max_seq_num
    /\ 2 * sr_receiver.window_size <= max_seq_num

\* C20: when send_frames returns while frames are still in the window or
\* the backlog, it does not return the value of a completed run (True).
C20_CapNotSuccess ==
  (/\ gbn_returned # <<>>
   /\ (DOMAIN gbn_sender.window # {} \/ Len(gbn_sender.data_buffer) > 0)) =>
    gbn_returned # <<TRUE>>

\* a step in which the Go-Back-N sender called receiver.receive_frame
GBNCallStep ==
  gbn_receiver'.total_frames_received = gbn_receiver.total_frames_received + 1

\* the window keys when the reply of that call reaches process_ack
GBNWindowAtAck == DOMAIN gbn_sender.window \cup {gbn_last'.inst}

\* the first instance at or after base whose number mod max_seq_num is a
FirstInstance(base, a) == base + ((a - base) % max_seq_num)

\* C21: process_ack(a) retires exactly the outstanding instances from base
\* through the first instance at or after base whose number mod 8 is a, and
\* moves base one past the highest retired instance; later instances stay.
C21_CumulativeAck ==
  [][(GBNCallStep /\ gbn_last'.ack_num # <<>>) =>
       LET a == gbn_last'.ack_num[1]
           retired == {n \in GBNWindowAtAck :
                         /\ gbn_sender.base <= n
                         /\ n <= FirstInstance(gbn_sender.base, a)}
       IN /\ DOMAIN gbn_sender'.window = GBNWindowAtAck \ retired
          /\ gbn_sender'.base =
               IF retired = {} THEN gbn_sender.base ELSE Max(retired) + 1]_vars

\* C22: total_retransmission_count never exceeds max_retransmissions (10);
\* once it is 10 no frame is retransmitted any more and the counters stay,
\* and send_frames still returns.
C22_RetransmissionBudget ==
  /\ [](gbn_sender.total_retransmission_count <= max_retransmissions)
  /\ [][gbn_sender.total_retransmission_count = max_retransmissions =>
          /\ ~(GBNCallStep /\ gbn_last'.retransmit)
          /\ gbn_sender'.total_retransmission_count = max_retransmissions
          /\ gbn_sender'.retransmissions = gbn_sender.retransmissions
          /\ gbn_retransmitted' = gbn_retransmitted
          /\ gbn_batch' = <<>>]_vars
  /\ (gbn_sender.total_retransmission_count = max_retransmissions) ~> (gbn_pc = "done")

\* send_frames has returned from a run that used up its budget, with frames
\* still outstanding
C22_Witness ==
  /\ gbn_sender.total_retransmission_count = max_retransmissions
  /\ gbn_returned = <<TRUE>>
  /\ gbn_retransmitted # {}
  /\ DOMAIN gbn_sender.window # {}

\* C23: the sender's base never passes the receiver's expected_seq_num, and
\* an instance that has left the sender window has been accepted by the
\* receiver.
C23_NeverRetiresUnaccepted ==
  /\ gbn_sender.base <= gbn_receiver.expected_seq_num
  /\ \A n \in 0..(gbn_sender.next_seq_num - 1) :
       n \notin DOMAIN gbn_sender.window => n < gbn_receiver.expected_seq_num

\* C24: the payloads held by the Go-Back-N receiver are a prefix of the
\* input: the k-th delivered payload is the k-th payload given to add_data.
C24_GapFreeDelivery ==
  gbn_receiver.received_frames = InputOrder(Len(gbn_receiver.received_frames))

\* C25: the Go-Back-N receiver accepts a frame (appends its payload and
\* adds 1 to expected_seq_num) iff the frame arrives intact with the number
\* expected_seq_num mod 8; it discards any other intact frame, changing
\* neither, and answers it with an ACK for (expected_seq_num - 1) mod 8 if a
\* frame has been accepted before and with nothing otherwise.  An ACK that
\* is lost does not reach the sender.
C25_ReceiverRule ==
  [][GBNCallStep =>
       LET frame == gbn_last'.frame
           outcome == gbn_last'.outcome
           expected == gbn_receiver.expected_seq_num
           intact == outcome \in {"ok", "ack_lost"}
           match == frame.seq_num = expected % max_seq_num
           same == /\ gbn_receiver'.received_frames = gbn_receiver.received_frames
                   /\ gbn_receiver'.expected_seq_num = expected
       IN /\ (intact /\ match) =>
               /\ gbn_receiver'.received_frames =
                    Append(gbn_receiver.received_frames, frame.data)
               /\ gbn_receiver'.expected_seq_num = expected + 1
               /\ outcome = "ok" => gbn_last'.ack_num = <<frame.seq_num>>
          /\ ~(intact /\ match) => same
          /\ (intact /\ ~match /\ outcome = "ok") =>
               gbn_last'.ack_num =
                 IF expected > 0 THEN <<(expected - 1) % max_seq_num>> ELSE <<>>
          /\ outcome # "ok" => gbn_last'.ack_num = <<>>]_vars

\* past the wrap of the sequence numbers the receiver discarded an intact
\* frame that arrived out of order and re-ACKed the last accepted number
C25_Witness ==
  /\ gbn_last.outcome = "ok"
  /\ gbn_receiver.expected_seq_num > max_seq_num
  /\ gbn_last.frame.seq_num # gbn_receiver.expected_seq_num % max_seq_num
  /\ gbn_last.frame.data # gbn_receiver.received_frames[Len(gbn_receiver.received_frames)]
  /\ gbn_last.ack_num = <<(gbn_receiver.expected_seq_num - 1) % max_seq_num>>
  /\ gbn_receiver.frames_discarded > 0

\* C26: when the oldest outstanding frame has timed out and the budget was
\* not exhausted, go_back_n_retransmit takes every instance of the window, in
\* increasing order, and sends each of them to the receiver unless an ACK
\* received during the batch has retired it.
C26_BatchRetransmission ==
  /\ [][(gbn_pc = "send" /\ gbn_pc' = "retransmit" /\ gbn_batch' # <<>>) =>
          gbn_batch' = SortedSeq(DOMAIN gbn_sender.window)]_vars
  /\ [][(gbn_pc = "retransmit" /\ gbn_batch # <<>>) =>
          LET seq_num == Head(gbn_batch)
          IN /\ gbn_batch' = Tail(gbn_batch)
             /\ IF seq_num \in DOMAIN gbn_sender.window
                  THEN /\ GBNCallStep
                       /\ gbn_last'.retransmit
                       /\ gbn_last'.inst = seq_num
                       /\ gbn_last'.frame = gbn_sender.window[seq_num].frame
                  ELSE ~GBNCallStep]_vars

\* the instances of the sender window [base, next_seq_num) that have been
\* acknowledged: process_ack has taken them out of the window
SRAcked(s) == {n \in s.base..(s.next_seq_num - 1) : n \notin DOMAIN s.window}

\* the first instance at or after base that has not been acknowledged
SRFirstUnacked(s) ==
  CHOOSE m \in s.base..s.next_seq_num :
    /\ \A n \in s.base..(m - 1) : n \in SRAcked(s)
    /\ m \notin SRAcked(s)

\* a step in which send_frames called slide_window
SRSlideStep == sr_pc = "retransmit" /\ sr_pc' # "retransmit"

\* C27: base changes only in slide_window, never in process_ack, and
\* slide_window moves it to the first instance at or after base that has not
\* been acknowledged: over acknowledged instances behind an unacknowledged
\* base it does not move at all.
C27_BaseAdvance ==
  /\ [][sr_sender'.base # sr_sender.base => SRSlideStep]_vars
  /\ [][SRSlideStep => sr_sender'.base = SRFirstUnacked(sr_sender)]_vars
  /\ [][(SRSlideStep /\ sr_sender.base \in DOMAIN sr_sender.window) =>
          sr_sender'.base = sr_sender.base]_vars

\* slide_window has run while a later instance was acknowledged and the base
\* instance was not: base stayed behind the acknowledged instance
C27_Witness ==
  /\ sr_pc = "while"
  /\ sr_sender.base > 0
  /\ sr_sender.base \in DOMAIN sr_sender.window
  /\ \E n \in SRAcked(sr_sender) : n > sr_sender.base
  /\ sr_sender.ack_received # {}

\* C28: between sender operations every key of the sender window is an
\* instance of [base, next_seq_num), the window holds at most window_size
\* entries, and the timers are kept for exactly the window keys.
C28_WindowContents ==
  /\ \A n \in DOMAIN sr_sender.window :
       sr_sender.base <= n /\ n < sr_sender.next_seq_num
  /\ Cardinality(DOMAIN sr_sender.window) <= sr_sender.window_size
  /\ DOMAIN sr_sender.individual_timers = DOMAIN sr_sender.window

\* past the wrap of the sequence numbers the window is full of
\* unacknowledged frames, one of them retransmitted
C28_Witness ==
  /\ sr_sender.window_size >= 2
  /\ Cardinality(DOMAIN sr_sender.window) = sr_sender.window_size
  /\ sr_sender.next_seq_num > max_seq_num
  /\ sr_last.retransmit
  /\ sr_last.inst \in DOMAIN sr_sender.window

\* C29: the sender is never ahead of the receiver window:
\* sender.base <= receiver.base <= sender.next_seq_num; no frame handed to
\* receive_frame lies above the receiver window, and an intact frame that
\* receive_frame finds outside the window has already been delivered.
C29_SenderBehindReceiver ==
  /\ [](sr_sender.base <= sr_receiver.base)
  /\ [](sr_receiver.base <= sr_sender.next_seq_num)
  /\ [][SRCallStep =>
          /\ sr_last'.inst < sr_receiver.base + sr_receiver.window_size
          /\ (/\ sr_last'.outcome \in {"ok", "ack_lost"}
              /\ ~is_in_window(sr_receiver, sr_last'.frame.seq_num)) =>
               sr_last'.inst < sr_receiver.base]_vars

\* C30: when receive_frame decides that the frame is lost or corrupted it
\* returns no acknowledgment and leaves base, buffer and received_frames as
\* they were.
C30_FaultLeavesReceiver ==
  [][(SRCallStep /\ sr_last'.outcome \in {"lost", "corrupted"}) =>
       /\ sr_last'.ack_nums = <<>>
       /\ sr_receiver'.base = sr_receiver.base
       /\ sr_receiver'.buffer = sr_receiver.buffer
       /\ sr_receiver'.received_frames = sr_receiver.received_frames]_vars

\* a frame was corrupted on its way to a receiver that holds delivered and
\* buffered frames; the corrupted frame is the one the receiver is waiting for
C30_Witness ==
  /\ sr_last.outcome = "corrupted"
  /\ sr_last.inst = sr_receiver.base
  /\ sr_receiver.base > 0
  /\ DOMAIN sr_receiver.buffer # {}
  /\ sr_receiver.frames_discarded >= 1

\* the receiver buffer when receive_frame reaches deliver_frames
SRBufferAtDelivery ==
  LET frame == sr_last'.frame
  IN [k \in DOMAIN sr_receiver.buffer \cup {frame.seq_num} |->
        IF k \in DOMAIN sr_receiver.buffer THEN sr_receiver.buffer[k] ELSE frame.data]

\* the length of the maximal run of consecutive buffered numbers from base
RunLength(buffer, base) ==
  CHOOSE k \in 0..max_seq_num :
    /\ \A i \in 0..(k - 1) : (base + i) % max_seq_num \in DOMAIN buffer
    /\ k = max_seq_num \/ (base + k) % max_seq_num \notin DOMAIN buffer

\* C31: a receive_frame call that reaches deliver_frames appends to
\* received_frames exactly the maximal run of consecutive buffered frames
\* from base mod 8, in order, takes them out of the buffer and adds the run
\* length to base; nothing else changes base or received_frames.
C31_DeliveryStep ==
  /\ [][(/\ SRCallStep
          /\ sr_last'.outcome \in {"ok", "ack_lost"}
          /\ is_in_window(sr_receiver, sr_last'.frame.seq_num)) =>
          LET base == sr_receiver.base
              k == RunLength(SRBufferAtDelivery, base)
              run == [i \in 1..k |-> SRBufferAtDelivery[(base + i - 1) % max_seq_num]]
          IN /\ sr_receiver'.received_frames = sr_receiver.received_frames \o run
             /\ sr_receiver'.base = base + k
             /\ DOMAIN sr_receiver'.buffer =
                  DOMAIN SRBufferAtDelivery \ {(base + i - 1) % max_seq_num : i \in 1..k}
             /\ \A n \in DOMAIN sr_receiver'.buffer :
                  sr_receiver'.buffer[n] = SRBufferAtDelivery[n]]_vars
  /\ [][~(/\ SRCallStep
           /\ sr_last'.outcome \in {"ok", "ack_lost"}
           /\ is_in_window(sr_receiver, sr_last'.frame.seq_num)) =>
          /\ sr_receiver'.base = sr_receiver.base
          /\ sr_receiver'.received_frames = sr_receiver.received_frames]_vars

\* the frame the receiver was waiting for arrived and was delivered together
\* with two frames buffered behind it
C31_Witness ==
  /\ sr_last.outcome = "ack_lost"
  /\ ~sr_last.delivered_before
  /\ sr_receiver.base = sr_last.inst + 3
  /\ Len(sr_receiver.received_frames) = sr_receiver.base
  /\ sr_receiver.received_frames[sr_last.inst + 1] = sr_last.frame.data

\* instance n has been acknowledged: process_ack has seen its ACK (it is out
\* of the window, or its number waits in ack_received, or base has passed it)
SRAcknowledged(s, n) ==
  /\ n < s.next_seq_num
  /\ \/ n < s.base
     \/ n \notin DOMAIN s.window
     \/ n % max_seq_num \in s.ack_received

\* C32: an instance that has been acknowledged is never passed to
\* receive_frame again, whether as a new frame or in a timeout scan.
C32_NoRetransmitAfterAck ==
  [][SRCallStep => ~SRAcknowledged(sr_sender, sr_last'.inst)]_vars

\* in the middle of a timeout scan the retransmitted instance has just been
\* acknowledged and taken out of the window, with expired frames still to go
C32_Witness ==
  /\ sr_pc = "retransmit"
  /\ sr_last.retransmit
  /\ SRAcknowledged(sr_sender, sr_last.inst)
  /\ sr_last.inst >= sr_sender.base
  /\ frames_to_retransmit # <<>>

\* C33: a receive_frame call returns no acknowledgment or exactly one, for
\* the number of the frame just received, however many frames the call
\* delivered.
C33_SelectiveAckShape ==
  [][SRCallStep =>
       \/ sr_last'.ack_nums = <<>>
       \/ sr_last'.ack_nums = <<sr_last'.frame.seq_num>>]_vars

\* a call that delivered the received frame and a frame buffered behind it
\* returned the one ACK
C33_Witness ==
  /\ sr_last.outcome = "ok"
  /\ sr_last.ack_nums = <<sr_last.frame.seq_num>>
  /\ ~sr_last.delivered_before
  /\ sr_receiver.base >= sr_last.inst + 2
  /\ sr_last.inst >= max_seq_num - 1

\* the payloads of the send_frame calls that returned True, in call order
\* (the k-th call carries payload k)
SAWReported == SelectSeq([k \in 1..Len(saw_results) |-> k], LAMBDA k : saw_results[k])

\* C34: the Stop-and-Wait receiver holds exactly the payloads whose
\* send_frame call returned True, in call order: none whose call returned
\* False, none twice.
C34_DeliveryMatchesSuccess ==
  saw_receiver.received_frames = SAWReported

\* after a delivered payload a call failed and the next one succeeded: the
\* receiver holds the first and the third payload
C34_Witness ==
  /\ Len(saw_results) >= 3
  /\ saw_results[1] /\ ~saw_results[2] /\ saw_results[3]
  /\ saw_pc = "idle"
  /\ SubSeq(saw_receiver.received_frames, 1, 2) = <<1, 3>>

\* C35: the sender's seq_num equals the receiver's expected_seq_num before
\* every attempt, so the frame of every attempt carries the expected number
\* and receive_frame never returns True from its duplicate branch.
C35_SequenceSync ==
  /\ [](saw_sender.seq_num = saw_receiver.expected_seq_num)
  /\ [][SAWAttemptStep =>
          /\ saw_last'.frame.seq_num = saw_receiver.expected_seq_num
          /\ saw_last'.expected_before = saw_sender.seq_num
          /\ saw_last'.returns => saw_last'.accepted]_vars

\* both bits have toggled twice and a retransmission has just been accepted
C35_Witness ==
  /\ saw_last.attempt >= 2
  /\ saw_last.accepted
  /\ saw_last.frame.seq_num = 0
  /\ saw_sender.seq_num = 1
  /\ Len(saw_receiver.received_frames) >= 3

\* C36: for Selective Repeat and for Go-Back-N the sender's
\* total_transmissions equals the receiver's total_frames_received between
\* sender operations: every counted (re)transmission is one receive_frame call.
C36_FaithfulCounting ==
  /\ sr_sender.total_transmissions = sr_receiver.total_frames_received
  /\ gbn_sender.total_transmissions = gbn_receiver.total_frames_received

\* C37: with window_size <= 8 no two instances of the sender window share a
\* number mod 8, process_ack removes at most one window entry, every number
\* in ack_received stands for an acknowledged instance of [base,
\* next_seq_num), and slide_window consumes a number only when base passes
\* that instance.
C37_UnambiguousAcks ==
  /\ [](\A m, n \in DOMAIN sr_sender.window :
          m # n => m % max_seq_num # n % max_seq_num)
  /\ [][SRCallStep =>
          Cardinality((DOMAIN sr_sender.window \cup {sr_last'.inst})
                        \ DOMAIN sr_sender'.window) <= 1]_vars
  /\ [](\A a \in sr_sender.ack_received :
          \E n \in SRAcked(sr_sender) : n % max_seq_num = a)
  /\ [][SRSlideStep =>
          /\ \A n \in sr_sender.base..(sr_sender'.base - 1) : n \in SRAcked(sr_sender)
          /\ sr_sender'.ack_received =
               sr_sender.ack_received \
                 {n % max_seq_num : n \in sr_sender.base..(sr_sender'.base - 1)}]_vars

\* a window of 8 reaches across the wrap: the base instance is outstanding
\* and an instance with a number that has wrapped is acknowledged behind it
C37_Witness ==
  /\ sr_sender.window_size = max_seq_num
  /\ sr_sender.next_seq_num - sr_sender.base = max_seq_num
  /\ sr_sender.base \in DOMAIN sr_sender.window
  /\ \E n \in SRAcked(sr_sender) :
       n >= max_seq_num /\ n % max_seq_num \in sr_sender.ack_received

\* C38: after every receive_frame call the receiver buffer does not hold
\* the number base mod 8, and it holds at most window_size - 1 frames.
C38_NothingDeliverableBuffered ==
  /\ sr_receiver.base % max_seq_num \notin DOMAIN sr_receiver.buffer
  /\ Cardinality(DOMAIN sr_receiver.buffer) <= sr_receiver.window_size - 1

\* the receiver waits for a frame with every other slot of its window
\* buffered, the window reaching across the wrap
C38_Witness ==
  /\ sr_receiver.window_size >= 3
  /\ Cardinality(DOMAIN sr_receiver.buffer) = sr_receiver.window_size - 1
  /\ \E n \in DOMAIN sr_receiver.buffer : n < sr_receiver.base % max_seq_num
  /\ sr_receiver.total_frames_received > sr_receiver.window_size

====
